---- MODULE Spec2Model ----
(***************************************************************************)
(* A model of sol_editor's src/app.rs: the per-frame App::update loop      *)
(* (message drain, File menu, central panel), the File-Open tasks that     *)
(* feed its channel, and the recursive renderer process_element.           *)
(*                                                                         *)
(* Run-time strings are sequences of characters; a character is a one      *)
(* element atom whose UTF-8 width is given by Utf8Len.  Text that is a     *)
(* literal of the program is carried in a widget's `lit' field, text that  *)
(* comes from data in its `text' field.                                    *)
(***************************************************************************)
EXTENDS Integers, Sequences, FiniteSets, TLC

(***************************************************************************)
(* Bounds of the model.                                                    *)
(***************************************************************************)
MaxTasks == 2
MaxChildren == 2
MaxProps == 2

(***************************************************************************)
(* Strings.                                                                *)
(***************************************************************************)
Min(a, b) == IF a < b THEN a ELSE b

Last(s) == s[Len(s)]

\* "U+00E9" stands for a two-byte character, every other one is ASCII.
Utf8Len(c) == IF c = "U+00E9" THEN 2 ELSE 1

RECURSIVE ByteLen(_)
\* str::len(): the length of a string in bytes.
ByteLen(s) == IF s = <<>> THEN 0 ELSE Utf8Len(Head(s)) + ByteLen(Tail(s))

\* Substring::substring(start, end): character indices, clamped to the end.
Substring(s, start, end) ==
    IF end <= start THEN <<>> ELSE SubSeq(s, start + 1, Min(end, Len(s)))

Digit(d) == CASE d = 0 -> "0" [] d = 1 -> "1" [] d = 2 -> "2" [] d = 3 -> "3"
              [] d = 4 -> "4" [] d = 5 -> "5" [] d = 6 -> "6" [] d = 7 -> "7"
              [] d = 8 -> "8" [] d = 9 -> "9"

RECURSIVE NatToString(_)
NatToString(n) ==
    IF n < 10 THEN <<Digit(n)>> ELSE Append(NatToString(n \div 10), Digit(n % 10))

\* ToString of an integral number, as ui.code(n) displays it.
IntToString(n) == IF n < 0 THEN <<"-">> \o NatToString(-n) ELSE NatToString(n)

BoolToString(b) == IF b THEN <<"t", "r", "u", "e">> ELSE <<"f", "a", "l", "s", "e">>

\* Display of AMFVersion.
VersionToString(v) == IF v = "AMF0" THEN <<"A", "M", "F", "0">> ELSE <<"A", "M", "F", "3">>

(***************************************************************************)
(* flash_lso types: Value, Element, ClassDefinition, Header, Lso.          *)
(***************************************************************************)
Number(n) == [tag |-> "Number", num |-> n]
Bool(b) == [tag |-> "Bool", bool |-> b]
String(s) == [tag |-> "String", str |-> s]
Integer(n) == [tag |-> "Integer", int |-> n]
Object(children, cd) == [tag |-> "Object", children |-> children, class_definition |-> cd]
Null == [tag |-> "Null"]
Undefined == [tag |-> "Undefined"]
Unsupported == [tag |-> "Unsupported"]
XML(s, b) == [tag |-> "XML", str |-> s, bool |-> b]
\* A variant whose payload the program never reads.
Other(t) == [tag |-> t]

\* The variants of Value that process_element names in neither match.
OtherTags == {"ECMAArray", "StrictArray", "Date", "AMF3", "ByteArray",
              "VectorInt", "VectorUInt", "VectorDouble", "VectorObject",
              "Dictionary", "Custom"}

NoClassDefinition == [some |-> FALSE]
ClassDefinition(name, props) == [some |-> TRUE, name |-> name, static_properties |-> props]

Element(name, value) == [name |-> name, value |-> value]

Header(length, name, version) == [length |-> length, name |-> name, format_version |-> version]

Lso(header, body) == [header |-> header, body |-> body]

(***************************************************************************)
(* egui widgets, in the order the Ui receives them.                        *)
(***************************************************************************)
Heading(l) == [w |-> "heading", lit |-> l]
LabelLit(l) == [w |-> "label", lit |-> l]
Label(s) == [w |-> "label", text |-> s]
CodeLit(l) == [w |-> "code", lit |-> l]
Code(s) == [w |-> "code", text |-> s]
Space(n) == [w |-> "space", amount |-> n]
Horizontal(items) == [w |-> "horizontal", items |-> items]
TextEdit(s) == [w |-> "text_edit", text |-> s]

FallbackText == "Couldn't find type."

(***************************************************************************)
(* The renderer, process_element.                                          *)
(***************************************************************************)
RECURSIVE StaticPropertiesPushed(_)
\* The loop over static_properties: push_str of a quote, the name, quote comma space.
StaticPropertiesPushed(props) ==
    IF props = <<>> THEN <<"[">>
    ELSE StaticPropertiesPushed(SubSeq(props, 1, Len(props) - 1))
           \o <<"\"">> \o props[Len(props)] \o <<"\"", ",", " ">>

\* The text shown after "Static Properties: ".
StaticPropertiesString(props) ==
    LET pushed == StaticPropertiesPushed(props)
        static_properties_string_length == ByteLen(pushed)
        trimmed == IF static_properties_string_length # 1
                   THEN Substring(pushed, 0, static_properties_string_length - 2)
                   ELSE pushed
    IN  trimmed \o <<"]">>

\* The widgets of the Some(class_definition) / None branch of an Object.
ClassDefinitionWidgets(cd) ==
    IF cd.some
    THEN << Horizontal(<< Space(10),
                          IF cd.name = <<>> THEN LabelLit("Class Definition: \"\"")
                                            ELSE LabelLit("Class Definition: "),
                          Code(cd.name) >>),
            Horizontal(<< Space(20),
                          LabelLit("Static Properties: "),
                          Code(StaticPropertiesString(cd.static_properties)) >>) >>
    ELSE << CodeLit("No Class Definition Found!") >>

\* The second match: the variants of AMF3 only.
VersionPass(value) ==
    IF value.tag = "Integer"
    THEN [out |-> << Code(IntToString(value.int)) >>, no_value2 |-> FALSE]
    ELSE [out |-> << >>, no_value2 |-> TRUE]

RECURSIVE process_element(_, _), CommonPass(_, _), ObjectChildren(_, _, _)

\* A child loop that stops one child early.
ObjectChildren_SkipLast(amf0, list_of_elements, i) ==
    IF i >= Len(list_of_elements) THEN << >>
    ELSE LET element1 == list_of_elements[i]
         IN  << Horizontal(<< Space(10), Label(element1.name) >>
                              \o process_element(amf0, element1)) >>
               \o ObjectChildren(amf0, list_of_elements, i + 1)

\* for i in 0..list_of_elements.len(): one horizontal group per child, from i on.
ObjectChildren(amf0, list_of_elements, i) ==
    IF i > Len(list_of_elements) THEN << >>
    ELSE LET element1 == list_of_elements[i]
         IN  << Horizontal(<< Space(10), Label(element1.name) >>
                              \o process_element(amf0, element1)) >>
               \o ObjectChildren(amf0, list_of_elements, i + 1)

\* The first match: the variants common to AMF0 and AMF3.
CommonPass(amf0, value) ==
    CASE value.tag = "Number" ->
           [out |-> << Code(IntToString(value.num)) >>, no_value |-> FALSE]
      [] value.tag = "Bool" ->
           [out |-> << Code(BoolToString(value.bool)) >>, no_value |-> FALSE]
      [] value.tag = "String" ->
           [out |-> << Code(value.str) >>, no_value |-> FALSE]
      [] value.tag = "Object" ->
           [out |-> ObjectChildren(amf0, value.children, 1)
                      \o ClassDefinitionWidgets(value.class_definition),
            no_value |-> FALSE]
      [] value.tag = "Null" ->
           [out |-> << Horizontal(<< CodeLit("null") >>) >>, no_value |-> FALSE]
      [] value.tag = "Undefined" ->
           [out |-> << CodeLit("undefined") >>, no_value |-> FALSE]
      [] value.tag = "Unsupported" ->
           [out |-> << CodeLit("unsupported") >>, no_value |-> FALSE]
      [] value.tag = "XML" ->
           [out |-> << Horizontal(<< Code(value.str), Code(BoolToString(value.bool)) >>) >>,
            no_value |-> FALSE]
      [] OTHER ->
           [out |-> << CodeLit(FallbackText) >>, no_value |-> TRUE]

\* process_element without the early return of `if amf0 && no_value'.
process_element_NoReturn(amf0, element) ==
    LET first == CommonPass(amf0, element.value)
        second == VersionPass(element.value)
    IN  << Label(element.name) >> \o first.out \o second.out
          \o (IF ~amf0 /\ first.no_value /\ second.no_value2
              THEN << CodeLit(FallbackText) >> ELSE << >>)

\* process_element whose final fallback forgets the first match's flag.
process_element_SecondFlagOnly(amf0, element) ==
    LET first == CommonPass(amf0, element.value)
        second == VersionPass(element.value)
    IN  << Label(element.name) >> \o first.out
          \o (IF amf0 /\ first.no_value THEN << >>
              ELSE second.out
                     \o (IF ~amf0 /\ second.no_value2
                         THEN << CodeLit(FallbackText) >> ELSE << >>))

\* The widgets one call of process_element adds to the Ui, in order.
process_element(amf0, element) ==
    LET value == element.value
        first == CommonPass(amf0, value)
        no_value == first.no_value
        second == VersionPass(value)
        no_value2 == second.no_value2
    IN  << Label(element.name) >> \o first.out
          \o (IF amf0 /\ no_value THEN << >>
              ELSE second.out
                     \o (IF ~amf0 /\ no_value /\ no_value2
                         THEN << CodeLit(FallbackText) >> ELSE << >>))

(***************************************************************************)
(* The files the picker can return, and what opening and decoding them     *)
(* gives.  File::open and Reader::parse are external: a path either opens  *)
(* or not, and its bytes either decode to an Lso or not.                   *)
(***************************************************************************)
Paths == {"a.sol", "b.sol", "empty.sol", "zero.sol", "bad.sol", "gone.sol"}

\* An AMF0 file with a number, an object with a class definition and a date.
LsoA ==
    Lso(Header(30, <<"a">>, "AMF0"),
        << Element(<<"n">>, Number(1)),
           Element(<<"o">>, Object(<< Element(<<"c">>, String(<<"s">>)) >>,
                                   ClassDefinition(<< >>, << <<"p">> >>))),
           Element(<<"d">>, Other("Date")) >>)

\* The AMF3 file of the specification's scenario.
LsoB == Lso(Header(12, <<"t", "e", "s", "t">>, "AMF3"), << Element(<<"x">>, Integer(5)) >>)

\* A file with no elements.
LsoEmpty == Lso(Header(10, <<"e">>, "AMF3"), << >>)

\* A file whose header carries 0 in its length field.
LsoZero == Lso(Header(0, <<"z">>, "AMF0"), << Element(<<"x">>, Number(1)) >>)

\* File::open(path_buf): Ok or Err.
FileOpens(path) == path # "gone.sol"

\* file.read_to_end(&mut data): the bytes of the file, named by the file.
FileData(path) == path

\* Reader::default().parse(&data): Ok((rest, lso)) or Err.
Parse(data) ==
    CASE data = "a.sol" -> [ok |-> TRUE, lso |-> LsoA]
      [] data = "b.sol" -> [ok |-> TRUE, lso |-> LsoB]
      [] data = "empty.sol" -> [ok |-> TRUE, lso |-> LsoEmpty]
      [] data = "zero.sol" -> [ok |-> TRUE, lso |-> LsoZero]
      [] OTHER -> [ok |-> FALSE]

\* Neither unwrap() of the Ok(message) arm panics for this path.
LoadSucceeds(path) == FileOpens(path) /\ Parse(FileData(path)).ok

\* The Lso the Ok(message) arm assigns for this path.
Decoded(path) == Parse(FileData(path)).lso

\* What the user can type into the name field in one frame.
NameEdits == { <<"m">> }

(***************************************************************************)
(* The state.                                                              *)
(***************************************************************************)
VARIABLES
    lso,            \* App.lso
    queue,          \* the messages in message_channel, oldest first
    tasks,          \* the File-Open tasks spawned so far, in spawn order
    pc,             \* where the UI thread is: idle, drain, menu, panel, crashed, exited
    quit,           \* frame.quit() was called in this frame
    panel,          \* the widgets of the last central panel
    posted,         \* history: the paths sent on the channel, in order
    processed,      \* history: the paths received from the channel, in order
    startQueue,     \* history: the queue when the current frame started
    frameProcessed, \* history: the paths received in the current frame
    frameStartLso,  \* history: App.lso when the current frame started
    loaded,         \* history: the path of the last successful load, or "none"
    nameEdited,     \* history: header.name was edited since the last load
    r_amf0,         \* renderer check: the amf0 argument
    r_element,      \* renderer check: the element argument
    r_out,          \* renderer check: the widgets emitted
    r_pc            \* renderer check: "input" or "done"

appVars == <<lso, queue, tasks, pc, quit, panel, posted, processed, startQueue,
             frameProcessed, frameStartLso, loaded, nameEdited>>
renderVars == <<r_amf0, r_element, r_out, r_pc>>
vars == <<lso, queue, tasks, pc, quit, panel, posted, processed, startQueue,
          frameProcessed, frameStartLso, loaded, nameEdited,
          r_amf0, r_element, r_out, r_pc>>

\* App::default().lso
DefaultLso == Lso(Header(0, <<"N", "o", "t", " ", "L", "o", "a", "d", "e", "d">>, "AMF0"), << >>)

\* The process is alive: the UI thread neither panicked nor quit.
Running == pc \notin {"crashed", "exited"}

\* An assignment of the decoded body that keeps the old header.
AssignLso_BodyOnly(old, new) == [old EXCEPT !.body = new.body]

\* self.lso = reader.1
AssignLso(old, new) == new

\* for element in body { process_element(ui, amf0, element) }, from index i on.
RECURSIVE BodyWidgets(_, _, _)
BodyWidgets(amf0, body, i) ==
    IF i > Len(body) THEN << >>
    ELSE process_element(amf0, body[i]) \o BodyWidgets(amf0, body, i + 1)

\* A central panel that looks at the body instead of header.length.
CentralPanel_ByBody(doc) ==
    LET header == doc.header
    IN  IF doc.body # << >>
        THEN << Heading("Header"),
                Horizontal(<< LabelLit("Name:"), TextEdit(header.name) >>),
                Horizontal(<< LabelLit("SOL/AMF Version:"),
                              Code(VersionToString(header.format_version)) >>),
                Horizontal(<< LabelLit("Length:"), Code(IntToString(header.length)) >>),
                Heading("Body") >>
               \o BodyWidgets(header.format_version = "AMF0", doc.body, 1)
               \o << [w |-> "warn_if_debug_build"] >>
        ELSE << Heading("No SOL file loaded.") >>

\* The closure given to CentralPanel::show, for the Lso it reads.
CentralPanel(doc) ==
    LET header == doc.header
    IN  IF header.length # 0
        THEN << Heading("Header"),
                Horizontal(<< LabelLit("Name:"), TextEdit(header.name) >>),
                Horizontal(<< LabelLit("SOL/AMF Version:"),
                              Code(VersionToString(header.format_version)) >>),
                Horizontal(<< LabelLit("Length:"), Code(IntToString(header.length)) >>),
                Heading("Body") >>
               \o BodyWidgets(header.format_version = "AMF0", doc.body, 1)
               \o << [w |-> "warn_if_debug_build"] >>
        ELSE << Heading("No SOL file loaded.") >>

AppInit ==
    /\ lso = DefaultLso
    /\ queue = << >>
    /\ tasks = << >>
    /\ pc = "idle"
    /\ quit = FALSE
    /\ panel = << >>
    /\ posted = << >>
    /\ processed = << >>
    /\ startQueue = << >>
    /\ frameProcessed = << >>
    /\ frameStartLso = DefaultLso
    /\ loaded = "none"
    /\ nameEdited = FALSE

RenderIdle ==
    /\ r_amf0 = TRUE
    /\ r_element = Element(<< >>, Null)
    /\ r_out = << >>
    /\ r_pc = "input"

Init == AppInit /\ RenderIdle

(***************************************************************************)
(* App::update, one frame: drain the channel, the File menu, the central   *)
(* panel.  The frame is split where a File-Open task can run in between.   *)
(***************************************************************************)
\* update is called; ctx.request_repaint() keeps frames coming.
FrameStart ==
    /\ pc = "idle"
    /\ pc' = "drain"
    /\ startQueue' = queue
    /\ frameProcessed' = << >>
    /\ frameStartLso' = lso
    /\ UNCHANGED <<lso, queue, tasks, quit, panel, posted, processed, loaded, nameEdited>>

\* try_recv() returns Ok(message) and both unwrap() succeed.
RecvOk ==
    /\ pc = "drain"
    /\ queue # << >>
    /\ LET path_buf == Head(queue)
       IN  /\ LoadSucceeds(path_buf)
           /\ lso' = AssignLso(lso, Decoded(path_buf))
           /\ loaded' = path_buf
           /\ processed' = Append(processed, path_buf)
           /\ frameProcessed' = Append(frameProcessed, path_buf)
    /\ queue' = Tail(queue)
    /\ nameEdited' = FALSE
    /\ UNCHANGED <<tasks, pc, quit, panel, posted, startQueue, frameStartLso>>

\* try_recv() returns Ok(message) and File::open(..).unwrap() or parse(..).unwrap() panics.
RecvPanic ==
    /\ pc = "drain"
    /\ queue # << >>
    /\ LET path_buf == Head(queue)
       IN  /\ ~LoadSucceeds(path_buf)
           /\ processed' = Append(processed, path_buf)
           /\ frameProcessed' = Append(frameProcessed, path_buf)
    /\ queue' = Tail(queue)
    /\ pc' = "crashed"
    /\ UNCHANGED <<lso, tasks, quit, panel, posted, startQueue, frameStartLso, loaded, nameEdited>>

\* A drain that can leave the loop while messages are queued.
RecvEmpty_BreakEarly ==
    /\ pc = "drain"
    /\ pc' = "menu"
    /\ UNCHANGED <<lso, queue, tasks, quit, panel, posted, processed, startQueue,
                   frameProcessed, frameStartLso, loaded, nameEdited>>

\* A blocking recv(): it returns Err only when no task can send any more.
RecvEmpty_Blocking ==
    /\ pc = "drain"
    /\ queue = << >>
    /\ \A t \in 1..Len(tasks) : tasks[t].st \notin {"picking", "chosen"}
    /\ pc' = "menu"
    /\ UNCHANGED <<lso, queue, tasks, quit, panel, posted, processed, startQueue,
                   frameProcessed, frameStartLso, loaded, nameEdited>>

\* try_recv() returns Err: break.
RecvEmpty ==
    /\ pc = "drain"
    /\ queue = << >>
    /\ pc' = "menu"
    /\ UNCHANGED <<lso, queue, tasks, quit, panel, posted, processed, startQueue,
                   frameProcessed, frameStartLso, loaded, nameEdited>>

\* The top panel with neither button clicked.
MenuIdle ==
    /\ pc = "menu"
    /\ pc' = "panel"
    /\ UNCHANGED <<lso, queue, tasks, quit, panel, posted, processed, startQueue,
                   frameProcessed, frameStartLso, loaded, nameEdited>>

\* "Open..." clicked: pick_file() and execute(async move { .. }).
MenuOpen ==
    /\ pc = "menu"
    /\ Len(tasks) < MaxTasks
    /\ tasks' = Append(tasks, [st |-> "picking", file |-> "none"])
    /\ pc' = "panel"
    /\ UNCHANGED <<lso, queue, quit, panel, posted, processed, startQueue,
                   frameProcessed, frameStartLso, loaded, nameEdited>>

\* "Exit" clicked: frame.quit().
MenuExit ==
    /\ pc = "menu"
    /\ quit' = TRUE
    /\ pc' = "panel"
    /\ UNCHANGED <<lso, queue, tasks, panel, posted, processed, startQueue,
                   frameProcessed, frameStartLso, loaded, nameEdited>>

\* The central panel; the name field takes the user's edit when it is shown.
CentralPanelStep ==
    /\ pc = "panel"
    /\ \E typed \in BOOLEAN, edit \in NameEdits :
         LET edits == typed /\ lso.header.length # 0
         IN  /\ lso' = IF edits THEN [lso EXCEPT !.header.name = edit] ELSE lso
             /\ nameEdited' = (nameEdited \/ (edits /\ edit # lso.header.name))
    /\ panel' = CentralPanel(lso')
    /\ pc' = IF quit THEN "exited" ELSE "idle"
    /\ UNCHANGED <<queue, tasks, quit, posted, processed, startQueue,
                   frameProcessed, frameStartLso, loaded>>

(***************************************************************************)
(* A File-Open task: the thread execute() spawns.                          *)
(***************************************************************************)
\* task.await returns Some(file).
PickerChosen(t, path) ==
    /\ Running
    /\ tasks[t].st = "picking"
    /\ tasks' = [tasks EXCEPT ![t] = [st |-> "chosen", file |-> path]]
    /\ UNCHANGED <<lso, queue, pc, quit, panel, posted, processed, startQueue,
                   frameProcessed, frameStartLso, loaded, nameEdited>>

\* A cancelled dialog that also clears the Document.
PickerCancelled_Clears(t) ==
    /\ Running
    /\ tasks[t].st = "picking"
    /\ tasks' = [tasks EXCEPT ![t] = [st |-> "cancelled", file |-> "none"]]
    /\ lso' = DefaultLso
    /\ UNCHANGED <<queue, pc, quit, panel, posted, processed, startQueue,
                   frameProcessed, frameStartLso, loaded, nameEdited>>

\* task.await returns None: the task ends.
PickerCancelled(t) ==
    /\ Running
    /\ tasks[t].st = "picking"
    /\ tasks' = [tasks EXCEPT ![t] = [st |-> "cancelled", file |-> "none"]]
    /\ UNCHANGED <<lso, queue, pc, quit, panel, posted, processed, startQueue,
                   frameProcessed, frameStartLso, loaded, nameEdited>>

\* A send that jumps the queue.
TaskSend_Front(t) ==
    /\ Running
    /\ tasks[t].st = "chosen"
    /\ queue' = << tasks[t].file >> \o queue
    /\ posted' = Append(posted, tasks[t].file)
    /\ tasks' = [tasks EXCEPT ![t] = [st |-> "sent", file |-> "none"]]
    /\ UNCHANGED <<lso, pc, quit, panel, processed, startQueue,
                   frameProcessed, frameStartLso, loaded, nameEdited>>

\* A send that drops a path which is already queued.
TaskSend_Dedup(t) ==
    /\ Running
    /\ tasks[t].st = "chosen"
    /\ LET dup == \E i \in 1..Len(queue) : queue[i] = tasks[t].file
       IN  /\ queue' = IF dup THEN queue ELSE Append(queue, tasks[t].file)
           /\ posted' = IF dup THEN posted ELSE Append(posted, tasks[t].file)
    /\ tasks' = [tasks EXCEPT ![t] = [st |-> "sent", file |-> "none"]]
    /\ UNCHANGED <<lso, pc, quit, panel, processed, startQueue,
                   frameProcessed, frameStartLso, loaded, nameEdited>>

\* message_sender.send(Message::FileOpen(file_path)).ok(): the task ends.
TaskSend(t) ==
    /\ Running
    /\ tasks[t].st = "chosen"
    /\ queue' = Append(queue, tasks[t].file)
    /\ posted' = Append(posted, tasks[t].file)
    /\ tasks' = [tasks EXCEPT ![t] = [st |-> "sent", file |-> "none"]]
    /\ UNCHANGED <<lso, pc, quit, panel, processed, startQueue,
                   frameProcessed, frameStartLso, loaded, nameEdited>>

Next ==
    \/ (FrameStart /\ UNCHANGED renderVars)
    \/ (RecvOk /\ UNCHANGED renderVars)
    \/ (RecvPanic /\ UNCHANGED renderVars)
    \/ (RecvEmpty /\ UNCHANGED renderVars)
    \/ (MenuIdle /\ UNCHANGED renderVars)
    \/ (MenuOpen /\ UNCHANGED renderVars)
    \/ (MenuExit /\ UNCHANGED renderVars)
    \/ (CentralPanelStep /\ UNCHANGED renderVars)
    \/ (\E t \in 1..Len(tasks) : \E path \in Paths : PickerChosen(t, path) /\ UNCHANGED renderVars)
    \/ (\E t \in 1..Len(tasks) : PickerCancelled(t) /\ UNCHANGED renderVars)
    \/ (\E t \in 1..Len(tasks) : TaskSend(t) /\ UNCHANGED renderVars)

Spec == Init /\ [][Next]_vars

(***************************************************************************)
(* process_element on its own: every variant of Value, both versions.      *)
(***************************************************************************)
RECURSIVE SeqsUpTo(_, _)
\* The sequences over S of length at most n.
SeqsUpTo(n, S) ==
    IF n = 0 THEN { << >> }
    ELSE LET shorter == SeqsUpTo(n - 1, S)
         IN  shorter \cup { Append(q, x) : q \in shorter, x \in S }

\* The variants the first match names.
CommonTags == {"Number", "Bool", "String", "Object", "Null", "Undefined", "Unsupported", "XML"}

LeafValues ==
    { Number(0), Number(1), Bool(TRUE), Bool(FALSE), String(<< >>), String(<<"s">>),
      Integer(0), Integer(5), Integer(-7), Null, Undefined, Unsupported,
      XML(<<"x">>, TRUE), XML(<< >>, FALSE) }
    \cup { Other(t) : t \in OtherTags }

ElementNames == { <<"x">>, << >> }

Leaves == { Element(n, v) : n \in ElementNames, v \in LeafValues }

PropNames == { << >>, <<"p">>, <<"U+00E9">> }

ClassDefs ==
    { NoClassDefinition }
    \cup { ClassDefinition(n, ps) : n \in { << >>, <<"C">> }, ps \in SeqsUpTo(MaxProps, PropNames) }

FewClassDefs == { NoClassDefinition, ClassDefinition(<<"C">>, << <<"p">> >>) }

ChildLeaves ==
    { Element(n, v) : n \in { <<"a">>, <<"b">> }, v \in { Number(1), Integer(5), Other("Date") } }

\* Objects to nest inside an object.
InnerObjects ==
    { Element(<<"o">>, Object(cs, cd)) :
        cs \in { << >>, << Element(<<"a">>, Integer(5)) >> }, cd \in FewClassDefs }

ChildLists == SeqsUpTo(MaxChildren, ChildLeaves \cup InnerObjects)

FewChildLists == { << >>, << Element(<<"a">>, Number(1)) >> }

ObjectValues ==
    { Object(cs, cd) : cs \in ChildLists, cd \in FewClassDefs }
    \cup { Object(cs, cd) : cs \in FewChildLists, cd \in ClassDefs }

Elements == Leaves \cup { Element(n, v) : n \in ElementNames, v \in ObjectValues }

RenderInit ==
    /\ AppInit
    /\ r_amf0 \in BOOLEAN
    /\ r_element \in Elements
    /\ r_out = << >>
    /\ r_pc = "input"

\* process_element(ui, amf0, element) is called.
RenderElement ==
    /\ r_pc = "input"
    /\ r_out' = process_element(r_amf0, r_element)
    /\ r_pc' = "done"
    /\ UNCHANGED <<r_amf0, r_element>>
    /\ UNCHANGED appVars

NextRender == RenderElement

SpecRender == RenderInit /\ [][NextRender]_vars

\* How often the fallback text is among the widgets of the element itself.
FallbackCount(out) ==
    Cardinality({ i \in 1..Len(out) : out[i] = CodeLit(FallbackText) })

(***************************************************************************)
(* Properties of the frame loop and the File-Open tasks.                   *)
(***************************************************************************)
\* The messages queued at frame start are the first ones the frame received.
StartQueueDrained ==
    /\ Len(frameProcessed) >= Len(startQueue)
    /\ SubSeq(frameProcessed, 1, Len(startQueue)) = startQueue

\* Empty or Loaded, as the central panel tells them apart.
UiState(doc) == IF doc.header.length = 0 THEN "Empty" ELSE "Loaded"

\* doc is what loading path gives, up to an edit of header.name when edited.
LsoFrom(path, edited, doc) ==
    IF path = "none" THEN doc = DefaultLso
    ELSE LET d == Decoded(path)
         IN  /\ doc.body = d.body
             /\ doc.header.length = d.header.length
             /\ doc.header.format_version = d.header.format_version
             /\ (~edited => doc.header.name = d.header.name)

\* The step receives a message and does not panic.
ReceivedOk == processed' # processed /\ pc' # "crashed"

\* C1 as stated: when the central panel is about to be rendered, every message
\* queued at frame start has been processed in FIFO order and the Document is
\* the one left by the last of those messages.
C1_RendersLastQueuedAtStart ==
    pc = "panel" =>
        /\ StartQueueDrained
        /\ (startQueue # << >> => lso = Decoded(Last(startQueue)))

\* C1 amended: when the central panel is about to be rendered, every message
\* queued at frame start has been processed in FIFO order, and the Document is
\* the one left by the last message the frame's drain received, which may be
\* one posted while the drain was running; with none received it is the
\* Document of the frame's start.
C1_RendersLastDrained ==
    pc \in {"menu", "panel"} =>
        /\ StartQueueDrained
        /\ (frameProcessed # << >> => lso = Decoded(Last(frameProcessed)))
        /\ (frameProcessed = << >> => lso = frameStartLso)

C1_Witness ==
    /\ pc = "panel"
    /\ startQueue # << >>
    /\ Len(frameProcessed) > Len(startQueue)
    /\ lso = Decoded(Last(frameProcessed))
    /\ lso # Decoded(Last(startQueue))

\* C2: processing a FileOpen message that fails leaves the application
\* running (with its Document unchanged).
C2_FailureRecoverable ==
    \A i \in 1..Len(processed) : ~LoadSucceeds(processed[i]) => Running

\* C3: the UI state changes only in a step that successfully processes a
\* FileOpen, never from Loaded to Empty, and such a step leaves it Loaded.
C3_OnlyIntoLoaded ==
    [][ /\ (UiState(lso') # UiState(lso) => ReceivedOk)
        /\ ~(UiState(lso) = "Loaded" /\ UiState(lso') = "Empty")
        /\ (ReceivedOk => UiState(lso') = "Loaded") ]_vars

\* C4: the held Document is Empty (length 0, empty body) or Loaded (non-zero
\* length, the body a decoder gave); never length 0 with a non-empty body.
C4_EmptyOrLoaded ==
    /\ (lso.header.length = 0 => lso.body = << >>)
    /\ (lso.header.length # 0 => loaded # "none" /\ lso.body = Decoded(loaded).body)

\* C5: a successfully processed FileOpen makes the Document exactly the
\* decoder's output for that file in one step, and every central panel is
\* rendered from a Document all of whose parts come from one load (or from the
\* placeholder), the name alone possibly edited since.
C5_AtomicReplace ==
    [][ /\ (ReceivedOk => lso' = Decoded(Last(processed')))
        /\ (pc = "panel" /\ pc' # "panel" =>
              /\ panel' = CentralPanel(lso')
              /\ LsoFrom(loaded', nameEdited', lso')) ]_vars

C5_Witness ==
    /\ loaded = "empty.sol"
    /\ Len(processed) >= 2
    /\ processed[Len(processed) - 1] # "empty.sol"
    /\ lso.body = << >>
    /\ lso = LsoEmpty
    /\ panel = CentralPanel(LsoEmpty)

\* C6: messages are received in the order they were posted, whatever the
\* order of the clicks, and with the queue drained the Document is the decode
\* of the message received last (up to an edit of its name).
C6_LastProcessedWins ==
    /\ processed \o queue = posted
    /\ (queue = << >> /\ processed # << >> /\ pc # "crashed"
          => LsoFrom(Last(processed), nameEdited, lso))

C6_Witness ==
    /\ Len(tasks) >= 2
    /\ tasks[1].st = "chosen"
    /\ tasks[2].st = "sent"
    /\ queue = << >>
    /\ Len(processed) >= 1
    /\ pc = "idle"
    /\ lso = Decoded(Last(processed))
    /\ tasks[1].file # Last(processed)

\* The tasks that sent their message.
SentTasks(ts) == { t \in 1..Len(ts) : ts[t].st = "sent" }

\* C7: every task whose picker returned a file posts exactly one FileOpen for
\* that file, whether or not another task posted the same one; a cancelled
\* task posts nothing and leaves the Document alone; the messages posted are
\* as many as the tasks that ended with a chosen file.
C7_OneMessagePerChosenFile ==
    [][ /\ Len(posted') = Cardinality(SentTasks(tasks'))
        /\ \A t \in 1..Len(tasks) :
             /\ (tasks[t].st = "picking" /\ tasks'[t].st = "cancelled"
                   => posted' = posted /\ queue' = queue /\ lso' = lso)
             /\ (tasks[t].st = "chosen" /\ tasks'[t].st = "sent"
                   => /\ posted' = Append(posted, tasks[t].file)
                      /\ queue' = Append(queue, tasks[t].file)) ]_vars

C7_Witness ==
    /\ Len(tasks) = 2
    /\ tasks[1].st = "sent"
    /\ tasks[2].st = "sent"
    /\ posted = << "a.sol", "a.sol" >>
    /\ queue = posted

(***************************************************************************)
(* Properties of process_element.                                          *)
(***************************************************************************)
\* C8: one call of process_element emits the fallback text at most once for
\* the element itself, for every variant and both versions.
C8_FallbackAtMostOnce ==
    r_pc = "done" => FallbackCount(r_out) <= 1

\* C9: under AMF3 an Integer is rendered by the second pass only: the first
\* pass renders nothing, and the output is the name and the integer with no
\* fallback text.
C9_IntegerSecondPassOnly ==
    (r_pc = "done" /\ ~r_amf0 /\ r_element.value.tag = "Integer") =>
        /\ CommonPass(r_amf0, r_element.value).no_value
        /\ CommonPass(r_amf0, r_element.value).out = << >>
        /\ r_out = << Label(r_element.name), Code(IntToString(r_element.value.int)) >>
        /\ FallbackCount(r_out) = 0

\* C10: under AMF0 a value outside the common set is rendered as its name and
\* the fallback text, once, and nothing else: no Integer value is shown.
C10_V0FallbackOnly ==
    (r_pc = "done" /\ r_amf0 /\ r_element.value.tag \notin CommonTags) =>
        r_out = << Label(r_element.name), CodeLit(FallbackText) >>

C10_Witness ==
    /\ r_pc = "done"
    /\ r_amf0
    /\ r_element.value = Integer(5)
    /\ FallbackCount(r_out) = 1


\* The variants C11 names as independent of the format version.
VersionInvariantTags == {"Number", "Bool", "String", "Null", "Undefined", "XML", "Unsupported"}

\* C11: for a Number, Bool, String, Null, Undefined, XML or Unsupported value
\* the widgets emitted with amf0 = true and with amf0 = false are the same.
C11_VersionInvariant ==
    (r_pc = "done" /\ r_element.value.tag \in VersionInvariantTags) =>
        r_out = process_element(~r_amf0, r_element)

C11_Witness ==
    /\ r_pc = "done"
    /\ ~r_amf0
    /\ r_element.value = XML(<<"x">>, TRUE)
    /\ r_out = process_element(TRUE, r_element)
    /\ Len(r_out) = 2

\* A label that shows an element's name.
IsNameLabel(wd) == wd.w = "label" /\ "text" \in DOMAIN wd

\* The names shown by the name labels among these widgets, in order.
NameLabelTexts(items) ==
    LET sel == SelectSeq(items, IsNameLabel)
    IN  [i \in 1..Len(sel) |-> sel[i].text]

\* The widget is an entry of the child loop: indented, then the child's name.
IsChildEntry(wd) ==
    /\ wd.w = "horizontal"
    /\ Len(wd.items) >= 2
    /\ wd.items[1] = Space(10)
    /\ IsNameLabel(wd.items[2])

\* C12: an Object with children c1..cn is rendered as exactly n child entries,
\* in order and before the class-definition output, and the name labels of
\* the entries are the children's names, none omitted and none repeated.
C12_ChildEntriesInOrder ==
    (r_pc = "done" /\ r_element.value.tag = "Object") =>
        LET cs == r_element.value.children
            n == Len(cs)
        IN  /\ Len(r_out) >= n + 1
            /\ \A i \in 1..n :
                 /\ IsChildEntry(r_out[i + 1])
                 /\ NameLabelTexts(r_out[i + 1].items) = << cs[i].name >>
            /\ \A j \in (n + 2)..Len(r_out) : ~IsChildEntry(r_out[j])

RECURSIVE JoinQuoted(_)
\* "p1", "p2", ..., "pN": each name in double quotes, a comma and a space between.
JoinQuoted(props) ==
    IF props = << >> THEN << >>
    ELSE LET quoted == <<"\"">> \o Last(props) \o <<"\"">>
         IN  IF Len(props) = 1 THEN quoted
             ELSE JoinQuoted(SubSeq(props, 1, Len(props) - 1)) \o <<",", " ">> \o quoted

\* C13: the static-properties text is [] for no property and ["p1", ..., "pN"]
\* otherwise, with nothing between the last closing quote and the bracket,
\* whatever characters the names hold.
C13_StaticPropertiesText ==
    (r_pc = "done" /\ r_element.value.tag = "Object" /\ r_element.value.class_definition.some) =>
        Last(r_out) =
            Horizontal(<< Space(20), LabelLit("Static Properties: "),
                          Code(<<"[">> \o JoinQuoted(r_element.value.class_definition.static_properties)
                                 \o <<"]">>) >>)

\* What process_element emitted after the name label and the first match.
AfterCommonPass(amf0, element, out) ==
    LET prefix == << Label(element.name) >> \o CommonPass(amf0, element.value).out
    IN  IF Len(out) >= Len(prefix) /\ SubSeq(out, 1, Len(prefix)) = prefix
        THEN [ok |-> TRUE, rest |-> SubSeq(out, Len(prefix) + 1, Len(out))]
        ELSE [ok |-> FALSE, rest |-> << >>]

\* C19: what follows the first match's output (a value or the fallback text)
\* is there only when the first match was unmatched and the format is AMF3;
\* a value the first match rendered gets nothing from the second, and an
\* unmatched first match has rendered no value.
C19_SecondPassOnlyWhenUnmatchedV3 ==
    r_pc = "done" =>
        LET first == CommonPass(r_amf0, r_element.value)
            after == AfterCommonPass(r_amf0, r_element, r_out)
        IN  /\ after.ok
            /\ (after.rest # << >> => first.no_value /\ ~r_amf0)
            /\ (~first.no_value => after.rest = << >>)
            /\ (first.no_value => first.out = << CodeLit(FallbackText) >>)
            /\ Len(after.rest) <= 1

C19_Witness ==
    /\ r_pc = "done"
    /\ ~r_amf0
    /\ r_element.value = Number(1)
    /\ r_out = << Label(r_element.name), Code(<<"1">>) >>

(***************************************************************************)
(* One frame's central panel on its own: every header length and version,  *)
(* bodies of up to two elements.                                           *)
(***************************************************************************)
\* The second element of a body.
SecondElements == { Element(<<"y">>, Other("Date")), Element(<<"y">>, Integer(5)) }

FrameBodies ==
    { << >> }
    \cup { << e >> : e \in Elements }
    \cup { << e, f >> : e \in Elements, f \in SecondElements }

FrameDocuments ==
    { Lso(Header(l, <<"h">>, v), b) : l \in {0, 12}, v \in {"AMF0", "AMF3"}, b \in FrameBodies }

FrameInit ==
    /\ lso \in FrameDocuments
    /\ queue = << >>
    /\ tasks = << >>
    /\ pc = "panel"
    /\ quit = FALSE
    /\ panel = << >>
    /\ posted = << >>
    /\ processed = << >>
    /\ startQueue = << >>
    /\ frameProcessed = << >>
    /\ frameStartLso = lso
    /\ loaded = "none"
    /\ nameEdited = FALSE
    /\ RenderIdle

NextFrame == CentralPanelStep /\ UNCHANGED renderVars

SpecFrame == FrameInit /\ [][NextFrame]_vars

RECURSIVE NameLabelCount(_)
\* The name labels among the widgets, those inside groups included.
NameLabelCount(out) ==
    IF out = << >> THEN 0
    ELSE LET wd == Head(out)
         IN  (IF IsNameLabel(wd) THEN 1 ELSE 0)
             + (IF wd.w = "horizontal" THEN NameLabelCount(wd.items) ELSE 0)
             + NameLabelCount(Tail(out))

RECURSIVE ChildEntryCount(_)
\* The entries of child loops among the widgets, those inside groups included.
ChildEntryCount(out) ==
    IF out = << >> THEN 0
    ELSE LET wd == Head(out)
         IN  (IF IsChildEntry(wd) THEN 1 ELSE 0)
             + (IF wd.w = "horizontal" THEN ChildEntryCount(wd.items) ELSE 0)
             + ChildEntryCount(Tail(out))

RECURSIVE FallbackTotal(_)
\* How often the fallback text is shown, inside groups included.
FallbackTotal(out) ==
    IF out = << >> THEN 0
    ELSE LET wd == Head(out)
         IN  (IF wd = CodeLit(FallbackText) THEN 1 ELSE 0)
             + (IF wd.w = "horizontal" THEN FallbackTotal(wd.items) ELSE 0)
             + FallbackTotal(Tail(out))

\* Every call of process_element opens with one name label, and every entry of
\* a child loop adds one more: the calls behind a sequence of widgets.
ProcessElementCalls(out) == NameLabelCount(out) - ChildEntryCount(out)

RECURSIVE ElementCount(_)
\* The elements of a list and all their Object descendants.
ElementCount(list) ==
    IF list = << >> THEN 0
    ELSE 1 + (IF Head(list).value.tag = "Object" THEN ElementCount(Head(list).value.children) ELSE 0)
           + ElementCount(Tail(list))

RECURSIVE UnrecognisedCount(_)
\* The elements, descendants included, whose variant neither match names.
UnrecognisedCount(list) ==
    IF list = << >> THEN 0
    ELSE (IF Head(list).value.tag \in OtherTags THEN 1 ELSE 0)
           + (IF Head(list).value.tag = "Object" THEN UnrecognisedCount(Head(list).value.children) ELSE 0)
           + UnrecognisedCount(Tail(list))

\* C14: the render of a Loaded frame runs to its end; process_element is
\* called once for every body element in body order and once for every Object
\* descendant; every variant the renderer does not recognise shows the
\* fallback text.
C14_RenderTotal ==
    (pc = "idle" /\ lso.header.length # 0) =>
        /\ Last(panel) = [w |-> "warn_if_debug_build"]
        /\ NameLabelTexts(panel) = [i \in 1..Len(lso.body) |-> lso.body[i].name]
        /\ ProcessElementCalls(panel) = ElementCount(lso.body)
        /\ FallbackTotal(panel) >= UnrecognisedCount(lso.body)

C14_Witness ==
    /\ pc = "idle"
    /\ lso.header.length # 0
    /\ Len(lso.body) = 2
    /\ lso.body[1].value.tag = "Object"
    /\ Len(lso.body[1].value.children) = 2
    /\ lso.body[1].value.children[2].value.tag = "Object"
    /\ lso.body[2].value.tag = "Date"
    /\ ProcessElementCalls(panel) = ElementCount(lso.body)
    /\ ElementCount(lso.body) >= 4

\* C18: with header.length == 0 the central panel is exactly the heading
\* "No SOL file loaded.", whatever the body holds; with header.length != 0 it
\* shows the header fields, the editable name and every body element.
C18_EmptyOrFullPanel ==
    pc = "idle" =>
        IF lso.header.length = 0
        THEN /\ panel = << Heading("No SOL file loaded.") >>
             /\ ProcessElementCalls(panel) = 0
        ELSE /\ SubSeq(panel, 1, 5) =
                  << Heading("Header"),
                     Horizontal(<< LabelLit("Name:"), TextEdit(lso.header.name) >>),
                     Horizontal(<< LabelLit("SOL/AMF Version:"),
                                   Code(VersionToString(lso.header.format_version)) >>),
                     Horizontal(<< LabelLit("Length:"), Code(IntToString(lso.header.length)) >>),
                     Heading("Body") >>
             /\ NameLabelTexts(panel) = [i \in 1..Len(lso.body) |-> lso.body[i].name]
             /\ ProcessElementCalls(panel) = ElementCount(lso.body)

C18_Witness ==
    /\ pc = "idle"
    /\ lso.header.length = 0
    /\ Len(lso.body) = 2
    /\ panel = << Heading("No SOL file loaded.") >>

(***************************************************************************)
(* Who writes the Document, and who waits.                                 *)
(***************************************************************************)
\* C15: the Document changes only by the wholesale replacement of a
\* successfully processed FileOpen or by an edit of header.name in the central
\* panel; every other step (a frame's start, menu and rendering, Open, Exit,
\* a task's picker returning a file or being cancelled, a task's send) leaves
\* format_version, length and body as they are, and no task step changes the
\* Document at all.
C15_DocumentWriters ==
    [][ /\ (lso' # lso =>
              \/ (ReceivedOk /\ lso' = Decoded(Last(processed')))
              \/ (pc = "panel" /\ lso' = [lso EXCEPT !.header.name = lso'.header.name]))
        /\ (~ReceivedOk =>
              /\ lso'.header.format_version = lso.header.format_version
              /\ lso'.header.length = lso.header.length
              /\ lso'.body = lso.body)
        /\ (tasks' # tasks \/ posted' # posted \/ quit' # quit => lso' = lso) ]_vars

C15_Witness ==
    /\ loaded = "a.sol"
    /\ nameEdited
    /\ lso = [LsoA EXCEPT !.header.name = <<"m">>]
    /\ Len(tasks) = 2
    /\ tasks[2].st = "cancelled"
    /\ quit

\* A step of the UI thread.
UiStep ==
    \/ FrameStart
    \/ RecvOk
    \/ RecvPanic
    \/ RecvEmpty
    \/ MenuIdle
    \/ MenuOpen
    \/ MenuExit
    \/ CentralPanelStep

\* C16: the UI thread never waits: whatever the tasks and their pickers are
\* doing it has a step to take while the process is alive, an empty queue
\* lets the drain leave its loop at once, and a task waits only for its
\* picker (once the picker has returned a file its send can run).
C16_AppLoopNeverSuspends ==
    /\ (Running => ENABLED UiStep)
    /\ (pc = "drain" /\ queue = << >> => ENABLED RecvEmpty)
    /\ \A t \in 1..Len(tasks) : (Running /\ tasks[t].st = "chosen") => ENABLED TaskSend(t)

C16_Witness ==
    /\ pc = "idle"
    /\ panel # << >>
    /\ Len(tasks) = 2
    /\ tasks[1].st = "picking"
    /\ tasks[2].st = "picking"
    /\ queue = << >>

\* C17: every FileOpen posted to the channel is processed in the end: the UI
\* thread never stops for good while posted messages are still queued.
C17_PostedAreProcessed ==
    pc = "crashed" => queue = << >>

====
